---- MODULE Spec2Model ----
(***************************************************************************)
(* The Mafia WebSocket room server.  The repository holds the server in    *)
(* several successive versions; two of them are complete programs with     *)
(* host settings and a role deal and are modelled here:                    *)
(*                                                                         *)
(*   "pool"    src/server.js lines 1-191   (rolePool array, close handler) *)
(*   "counts"  src/server.js lines 193-451 (roleCounts, leaveRoom)         *)
(*                                                                         *)
(* The variable `variant` records which of the programs is running; it is  *)
(* fixed by Init and never changes.  Node runs every handler to completion *)
(* before the next event, so each handler is one action.                   *)
(*                                                                         *)
(* Room codes are the values genRoomId / pickCode can return.  They are    *)
(* drawn from Math.random and nothing keeps two calls from returning the   *)
(* same code, so a call may return any code in use; codes not in use are   *)
(* interchangeable, so of those it returns the smallest.  Codes are taken  *)
(* to be non-empty strings.                                                *)
(*                                                                         *)
(* The whitelist server of src/unnamed/part_000 (enabledRoles) is a third  *)
(* program, "whitelist".  The phase timer and the privileged channel are   *)
(* in none of the source files; they are modelled from the specification   *)
(* document, each on its own, in the variables timer and chat, which the   *)
(* servers above never touch.                                              *)
(*                                                                         *)
(* A handler that answers with an ERROR changes nothing but out and last.  *)
(* Whatever can follow such an event could have followed the state before  *)
(* it, so the next-state relations take no step from a state whose last    *)
(* event was answered by an error: the same states are reached.            *)
(***************************************************************************)
EXTENDS Integers, Sequences, FiniteSets, TLC

VARIABLES
    variant,   \* which program runs: "pool", "counts", "whitelist", "timer", "chat"
    conns,     \* conns[c]: the WebSocket object of connection c (state, roomId, name)
    rooms,     \* the registry: room code -> room object (the Map `rooms`)
    out,       \* the messages sent by the handler that ran last, in sending order
    last,      \* the event handled last: its type, its connection, its outcome
    timer,     \* the phase timer of a room and the room's paused flag
    chat       \* the privileged channel of a room: its phase, peers and log

vars == <<variant, conns, rooms, out, last, timer, chat>>

(***************************************************************************)
(* Bounds                                                                  *)
(***************************************************************************)
NumConns == 3      \* connections ever accepted
NumRoomIds == 2    \* distinct codes the code generator can return
MaxRand == 24      \* distinct outcomes of the random source per shuffle
MaxWlRand == 6      \* the same, per shuffle of the whitelist server
NumCrowd == 4      \* connections ever accepted when a room is filled past 3
MaxEvents == 6     \* client messages and closes handled in one behaviour

ConnIds == 1..NumConns
RoomIds == 1..NumRoomIds
CrowdIds == 1..NumCrowd

NullId == 0          \* JS null / undefined where an id or a room code is expected
Null == "null"       \* JS null where a string is expected
Undefined == "undefined"

(***************************************************************************)
(* Program constants                                                       *)
(***************************************************************************)
ROLE_CATALOG ==
    <<"pablo", "martinez", "blanco", "churchill", "doctor", "moreno", "benaparte", "citizen">>

DefaultRolePool ==
    <<"pablo", "juan", "blanco", "churchill", "doctor", "moreno", "martinez",
      "bonaparte", "chaplin", "citizen", "citizen">>

DefaultMaxPlayers == 11
MinMaxPlayers == 3
MaxMaxPlayers == 20
MaxRoleCount == 50
MinPlayers == 3
MaxRolePool == 30
MinEnabledRoles == 3

(***************************************************************************)
(* Generic helpers for JS arrays, Sets and Maps kept in insertion order    *)
(***************************************************************************)
Range(s) == {s[i] : i \in DOMAIN s}

Max(a, b) == IF a >= b THEN a ELSE b
Min(a, b) == IF a <= b THEN a ELSE b

\* Set.prototype.add: an element already present keeps its place
SetAdd(s, x) == IF x \in Range(s) THEN s ELSE Append(s, x)

\* Set.prototype.delete
SetDelete(s, x) == SelectSeq(s, LAMBDA e : e # x)

\* Map.prototype.delete on the peers map (keyed by peer id)
PeersDelete(peers, id) == SelectSeq(peers, LAMBDA p : p.id # id)

\* Map.prototype.set on the peers map: an existing key keeps its place
PeersSet(peers, id, rec) ==
    IF \E i \in DOMAIN peers : peers[i].id = id
    THEN [i \in DOMAIN peers |-> IF peers[i].id = id THEN rec ELSE peers[i]]
    ELSE Append(peers, rec)

PeerIds(room) == {room.peers[i].id : i \in DOMAIN room.peers}

\* a property of a JS object, undefined when absent
Get(obj, field) == IF field \in DOMAIN obj THEN obj[field] ELSE Undefined

\* Map.prototype.set / delete on the registry
RoomsSet(rms, id, room) ==
    [r \in (DOMAIN rms) \cup {id} |-> IF r = id THEN room ELSE rms[r]]

RoomsDelete(rms, id) == [r \in (DOMAIN rms) \ {id} |-> rms[r]]

RECURSIVE Flatten(_)
Flatten(ss) == IF ss = <<>> THEN <<>> ELSE Head(ss) \o Flatten(Tail(ss))

RECURSIVE Repeat(_, _)
Repeat(x, n) == IF n <= 0 THEN <<>> ELSE <<x>> \o Repeat(x, n - 1)

Count(s, x) == Cardinality({i \in DOMAIN s : s[i] = x})


\* the JS expression a || b on strings
Or(a, b) == IF a \in {Null, Undefined, ""} THEN b ELSE a

\* obj.field = val on a JS object: the property is added when absent
Assign(obj, field, val) ==
    [f \in (DOMAIN obj) \cup {field} |-> IF f = field THEN val ELSE obj[f]]

(***************************************************************************)
(* send, broadcast                                                         *)
(***************************************************************************)
Msg(ws, type, payload) == [to |-> ws, type |-> type, payload |-> payload]

\* send: a message goes out only on a connection whose readyState is OPEN.
\* cs is the connection table at the moment of sending.
send(cs, ws, type, payload) ==
    IF cs[ws].state = "open" THEN <<Msg(ws, type, payload)>> ELSE <<>>

sendAll(recipients, type, payload) ==
    [i \in DOMAIN recipients |-> Msg(recipients[i], type, payload)]

\* broadcast: room.clients in insertion order, skipping exceptWs
\* (the role-counts server has no exceptWs: its callers pass NullId)
broadcast(cs, room, type, payload, exceptWs) ==
    sendAll(SelectSeq(room.clients, LAMBDA c : c # exceptWs /\ cs[c].state = "open"),
            type, payload)

(***************************************************************************)
(* shuffle: Fisher-Yates.  The draws of the random source are the digits   *)
(* of r: the draw for position i is r % (i+1), then r is divided by i+1.   *)
(***************************************************************************)
\* a faulty variant: a swap that overwrites a[i] and loses its old value
SwapLossy(a, i, j) == [a EXCEPT ![i] = a[j]]

\* [a[i], a[j]] = [a[j], a[i]]
Swap(a, i, j) == [a EXCEPT ![i] = a[j], ![j] = a[i]]

RECURSIVE shuffleLoop(_, _, _)
shuffleLoop(a, i, r) ==
    IF i <= 0 THEN a
    ELSE shuffleLoop(Swap(a, i + 1, (r % (i + 1)) + 1), i - 1, r \div (i + 1))

shuffle(arr, r) == shuffleLoop(arr, Len(arr) - 1, r)

\* Array.prototype.slice(0, n)
Slice(a, n) == SubSeq(a, 1, Min(n, Len(a)))

\* while (pool.length < n) pool.push("citizen")
padCitizens(pool, n) == pool \o Repeat("citizen", n - Len(pool))

(***************************************************************************)
(* Message payloads.  A JSON value that Number() is applied to is either   *)
(* a finite integer or something Number() maps to NaN.                     *)
(***************************************************************************)
Num(n) == [num |-> n]
NaN == [nan |-> TRUE]
IsFinite(v) == "num" \in DOMAIN v \/ "halves" \in DOMAIN v

\* a finite number that is no integer: k/2 for an odd k
Halves(k) == [halves |-> k]

\* v < 0 and Math.floor(v) on a finite number
IsNegative(v) == IF "num" \in DOMAIN v THEN v.num < 0 ELSE v.halves < 0
Floor(v) == IF "num" \in DOMAIN v THEN v.num ELSE v.halves \div 2

\* payload.roomId of JOIN_ROOM: a room code, typed in upper or in lower case
JoinInputs == [code : RoomIds, upper : BOOLEAN]

\* payload.maxPlayers of UPDATE_SETTINGS
MaxPlayersInputs == {Num(2), NaN}

\* the same with a number inside the clamp range and one above it
WideMaxPlayersInputs == MaxPlayersInputs \cup {Num(4), Num(25)}

\* payload.counts of UPDATE_ROLE_COUNTS
CountsInputs ==
    { [pablo |-> Num(1), citizen |-> Num(2)],
      [pablo |-> Num(2), doctor |-> NaN, joker |-> Num(5), citizen |-> Num(2)],
      [pablo |-> Num(0 - 1), moreno |-> Num(1), blanco |-> Num(51), churchill |-> Halves(5)] }

\* payload.rolePool of UPDATE_ROLE_POOL: an array of strings, or no array
Array(a) == [array |-> a]
NoArray == [none |-> TRUE]
PoolInputs ==
    { Array(<<"pablo", "citizen", "citizen">>), Array(<<"pablo", "doctor">>), NoArray }

\* the draws of the random source during one shuffle
RandInputs == 0..(MaxRand - 1)

\* the draws of the random source during each of the two shuffles of the
\* whitelist server
WlRandInputs == 0..(MaxWlRand - 1)

\* the codes some room or some connection holds
CodesInUse == (DOMAIN rooms) \cup ({conns[c].roomId : c \in DOMAIN conns} \ {NullId})

\* genRoomId() / pickCode()
GeneratedCodes ==
    CodesInUse \cup
    {id \in RoomIds \ CodesInUse : \A other \in RoomIds \ CodesInUse : id <= other}

\* the event handled last; n counts the client messages and closes handled so far
Event(op, c, result) ==
    [op |-> op, conn |-> c, result |-> result,
     n |-> IF op = "connection" THEN last.n ELSE last.n + 1]

\* a faulty variant: the sender is taken out of its room before the checks
RejectAfterLeaving(ws, op, code) ==
    /\ out' = send(conns, ws, "ERROR", [message |-> code])
    /\ last' = Event(op, ws, code)
    /\ conns' = [conns EXCEPT ![ws].roomId = NullId]
    /\ UNCHANGED rooms

\* a handler that only answers with an ERROR
Reject(ws, op, code) ==
    /\ out' = send(conns, ws, "ERROR", [message |-> code])
    /\ last' = Event(op, ws, code)
    /\ UNCHANGED <<conns, rooms>>

\* no timer was started; no privileged channel is modelled
NoTimer == [exists |-> FALSE, paused |-> FALSE]
NoChat == [exists |-> FALSE]

\* the servers hold neither a timer nor a privileged channel
NoExtras == UNCHANGED <<timer, chat>>

\* the next-state relations explore from here only
Explore == last.result = "ok" /\ last.n < MaxEvents

(***************************************************************************)
(* Connections                                                             *)
(***************************************************************************)
\* wss.on("connection"): ids are fresh, so connections are numbered in the
\* order they are accepted
Connect(c) ==
    /\ conns[c].state = "new"
    /\ \A d \in DOMAIN conns : d < c => conns[d].state # "new"
    /\ conns' = [conns EXCEPT ![c].state = "open"]
    /\ out' = send(conns', c, "hello", [id |-> c])
    /\ last' = Event("connection", c, "ok")
    /\ UNCHANGED <<variant, rooms>>

\* the room a connection's roomId names in the registry, if any
InRegisteredRoom(ws) == conns[ws].roomId \in DOMAIN rooms
RoomOf(ws) == rooms[conns[ws].roomId]

\* a faulty variant: the lower limit only
clampMaxPlayersNoUpper(n) == Max(MinMaxPlayers, n)

\* Math.max(3, Math.min(20, n))
clampMaxPlayers(n) == Max(MinMaxPlayers, Min(MaxMaxPlayers, n))

\* a faulty variant: the capacity test lets one client too many in
roomIsOverFull(room) == Len(room.clients) > room.settings.maxPlayers

\* room.clients.size >= room.settings.maxPlayers
roomIsFull(room) == Len(room.clients) >= room.settings.maxPlayers

\* peers.forEach in START_GAME: role, alive, and each peer's PRIVATE_ROLE
dealPeers(peers, roles) ==
    [i \in DOMAIN peers |-> Assign(Assign(peers[i], "role", roles[i]), "alive", TRUE)]

dealMessages(cs, peers) ==
    Flatten([i \in DOMAIN peers |->
                send(cs, peers[i].ws, "PRIVATE_ROLE", [role |-> peers[i].role])])


(***************************************************************************)
(* The role-counts server (src/server.js 193-451)                          *)
(***************************************************************************)
\* a faulty variant: the public snapshot copies each peer's role
roomStateWithRoles(room) ==
    [roomId |-> room.id,
     hostId |-> room.hostId,
     phase  |-> room.phase,
     day    |-> room.day,
     peers  |-> [i \in DOMAIN room.peers |->
                    [id    |-> room.peers[i].id,
                     name  |-> Or(room.peers[i].name, "-"),
                     role  |-> room.peers[i].role,
                     alive |-> room.peers[i].alive]],
     settings |-> [maxPlayers  |-> room.settings.maxPlayers,
                   roleCatalog |-> room.settings.roleCatalog,
                   roleCounts  |-> room.settings.roleCounts]]

roomState(room) ==
    [roomId |-> room.id,
     hostId |-> room.hostId,
     phase  |-> room.phase,
     day    |-> room.day,
     peers  |-> [i \in DOMAIN room.peers |->
                    [id    |-> room.peers[i].id,
                     name  |-> Or(room.peers[i].name, "-"),
                     alive |-> room.peers[i].alive]],
     settings |-> [maxPlayers  |-> room.settings.maxPlayers,
                   roleCatalog |-> room.settings.roleCatalog,
                   roleCounts  |-> room.settings.roleCounts]]

\* a faulty variant: the client is deleted, its peer record is kept
removeClientOnly(room, ws) ==
    [room EXCEPT !.clients = SetDelete(room.clients, ws)]

\* room.clients.delete(ws); room.peers.delete(ws.id)
removeMember(room, ws) ==
    [room EXCEPT !.clients = SetDelete(room.clients, ws),
                 !.peers   = PeersDelete(room.peers, ws)]

\* a faulty variant: the peer that joined last is promoted
promoteLastPeer(room, ws) ==
    IF room.hostId = ws
    THEN [room EXCEPT !.hostId = IF room.peers # <<>>
                                 THEN room.peers[Len(room.peers)].id ELSE NullId]
    ELSE room

\* "If host left, promote first remaining peer as host"
promoteHost(room, ws) ==
    IF room.hostId = ws
    THEN [room EXCEPT !.hostId = IF room.peers # <<>> THEN room.peers[1].id ELSE NullId]
    ELSE room

\* the two broadcasts and the registry clean-up that end leaveRoom
leaveDone(cs, rms, ws, room) ==
    [conns |-> cs,
     rooms |-> IF Len(room.clients) = 0
               THEN RoomsDelete(rms, room.id)
               ELSE RoomsSet(rms, room.id, room),
     out   |-> broadcast(cs, room, "PEER_LEFT", [id |-> ws], NullId)
               \o broadcast(cs, room, "ROOM_STATE", roomState(room), NullId),
     room  |-> room]

\* a faulty variant: ws.roomId is not cleared when the room is found
leaveRoomKeepingId(cs, rms, ws) ==
    IF cs[ws].roomId = NullId
    THEN [conns |-> cs, rooms |-> rms, out |-> <<>>, room |-> NullId]
    ELSE IF cs[ws].roomId \notin DOMAIN rms
    THEN [conns |-> [cs EXCEPT ![ws].roomId = NullId], rooms |-> rms,
          out |-> <<>>, room |-> NullId]
    ELSE leaveDone(cs, rms, ws,
                   promoteHost(removeMember(rms[cs[ws].roomId], ws), ws))

\* leaveRoom(ws) run on connection table cs and registry rms.  The result
\* holds the new table and registry, the messages sent, and `room`: the room
\* object left, as mutated (it may no longer be registered), or NullId.
leaveRoom(cs, rms, ws) ==
    IF cs[ws].roomId = NullId
    THEN [conns |-> cs, rooms |-> rms, out |-> <<>>, room |-> NullId]
    ELSE IF cs[ws].roomId \notin DOMAIN rms
    THEN [conns |-> [cs EXCEPT ![ws].roomId = NullId], rooms |-> rms,
          out |-> <<>>, room |-> NullId]
    ELSE leaveDone([cs EXCEPT ![ws].roomId = NullId], rms, ws,
                   promoteHost(removeMember(rms[cs[ws].roomId], ws), ws))

defaultCounts ==
    [r \in Range(ROLE_CATALOG) |-> IF r = "citizen" THEN 1 ELSE 0]

newPeer(ws, name, dflt) ==
    [id |-> ws, ws |-> ws, name |-> Or(name, dflt), role |-> Null, alive |-> FALSE]

newRoom(ws, id) ==
    [id |-> id, hostId |-> ws, phase |-> "lobby", day |-> 0,
     clients |-> <<>>, peers |-> <<>>,
     settings |-> [maxPlayers  |-> DefaultMaxPlayers,
                   roleCatalog |-> ROLE_CATALOG,
                   roleCounts  |-> defaultCounts]]

\* room.clients.add(ws); room.peers.set(ws.id, {...})
addMember(room, ws, peer) ==
    [room EXCEPT !.clients = SetAdd(room.clients, ws),
                 !.peers   = PeersSet(room.peers, ws, peer)]

CreateRoom(ws) ==
    /\ variant = "counts"
    /\ conns[ws].state = "open"
    /\ \E id \in GeneratedCodes :
       \E L \in {leaveRoom(conns, rooms, ws)} :
       \E room \in {addMember(newRoom(ws, id), ws, newPeer(ws, conns[ws].name, "Host"))} :
          /\ rooms' = RoomsSet(L.rooms, id, room)
          /\ conns' = [L.conns EXCEPT ![ws].roomId = id]
          /\ out' = L.out
                    \o send(conns', ws, "ROOM_CREATED", [roomId |-> id, hostId |-> room.hostId])
                    \o broadcast(conns', room, "ROOM_STATE", roomState(room), NullId)
    /\ last' = Event("CREATE_ROOM", ws, "ok")
    /\ UNCHANGED variant

\* String(payload.roomId || "").toUpperCase(): generated codes are upper case
ToUpperCase(p) == p.code

JoinRoom(ws, p) ==
    /\ variant = "counts"
    /\ conns[ws].state = "open"
    /\ UNCHANGED variant
    /\ \E roomId \in {ToUpperCase(p)} :
       IF roomId \notin DOMAIN rooms
       THEN Reject(ws, "JOIN_ROOM", "ROOM_NOT_FOUND")
       ELSE IF roomIsFull(rooms[roomId])
       THEN Reject(ws, "JOIN_ROOM", "ROOM_IS_FULL")
       ELSE
       \E L \in {leaveRoom(conns, rooms, ws)} :
       \* `room` was looked up before leaveRoom ran: when the sender was in
       \* that very room it is the object leaveRoom mutated
       \E room \in {addMember(IF conns[ws].roomId = roomId THEN L.room ELSE rooms[roomId],
                              ws, newPeer(ws, conns[ws].name, "Guest"))} :
          \* the object is still the registered one unless leaveRoom deleted
          \* it from the registry
          /\ rooms' = IF roomId \in DOMAIN L.rooms
                      THEN RoomsSet(L.rooms, roomId, room)
                      ELSE L.rooms
          /\ conns' = [L.conns EXCEPT ![ws].roomId = room.id]
          /\ out' = L.out
                    \o send(conns', ws, "JOINED", [roomId |-> room.id, hostId |-> room.hostId])
                    \o broadcast(conns', room, "PEER_JOINED", [id |-> ws], NullId)
                    \o broadcast(conns', room, "ROOM_STATE", roomState(room), NullId)
          /\ last' = Event("JOIN_ROOM", ws, "ok")

\* a host-only handler's successful end: store the room, broadcast ROOM_STATE
Publish(ws, op, room) ==
    /\ rooms' = RoomsSet(rooms, room.id, room)
    /\ out' = broadcast(conns, room, "ROOM_STATE", roomState(room), NullId)
    /\ last' = Event(op, ws, "ok")
    /\ UNCHANGED conns

UpdateSettings(ws, v) ==
    /\ variant = "counts"
    /\ conns[ws].state = "open"
    /\ InRegisteredRoom(ws)
    /\ UNCHANGED variant
    /\ IF RoomOf(ws).hostId # ws
       THEN Reject(ws, "UPDATE_SETTINGS", "ONLY_HOST")
       ELSE Publish(ws, "UPDATE_SETTINGS",
                    IF IsFinite(v)
                    THEN [RoomOf(ws) EXCEPT !.settings.maxPlayers = clampMaxPlayers(v.num)]
                    ELSE RoomOf(ws))

\* a faulty variant: the entry is floored but not capped
clampCountUncapped(v) ==
    IF ~IsFinite(v) THEN 0
    ELSE IF IsNegative(v) THEN 0
    ELSE Floor(v)

\* one entry of `next`: Number(), negative and non-finite to 0, floor, cap at 50
clampCount(v) ==
    IF ~IsFinite(v) THEN 0
    ELSE IF IsNegative(v) THEN 0
    ELSE Min(MaxRoleCount, Floor(v))

nextCounts(catalog, counts) ==
    [r \in Range(catalog) |-> IF r \in DOMAIN counts THEN clampCount(counts[r]) ELSE 0]

UpdateRoleCounts(ws, counts) ==
    /\ variant = "counts"
    /\ conns[ws].state = "open"
    /\ InRegisteredRoom(ws)
    /\ UNCHANGED variant
    /\ IF RoomOf(ws).hostId # ws
       THEN Reject(ws, "UPDATE_ROLE_COUNTS", "ONLY_HOST")
       ELSE Publish(ws, "UPDATE_ROLE_COUNTS",
                    [RoomOf(ws) EXCEPT !.settings.roleCounts =
                        nextCounts(RoomOf(ws).settings.roleCatalog, counts)])

\* the pool START_GAME builds from roleCounts for n peers, before the shuffle
buildPool(settings, n) ==
    padCitizens(
        LET byCounts == Flatten([i \in DOMAIN settings.roleCatalog |->
                            Repeat(settings.roleCatalog[i],
                                   Max(0, settings.roleCounts[settings.roleCatalog[i]]))])
        IN  IF Len(byCounts) = 0 THEN <<"citizen">> ELSE byCounts,
        n)

\* a faulty variant: the deal leaves room.day as it was
DealKeepingDay(ws, room, roles) ==
    \E room1 \in {[room EXCEPT !.peers = dealPeers(room.peers, roles),
                               !.phase = "night"]} :
       /\ rooms' = RoomsSet(rooms, room.id, room1)
       /\ out' = dealMessages(conns, room1.peers)
                 \o broadcast(conns, room1, "ROOM_STATE", roomState(room1), NullId)
       /\ last' = Event("START_GAME", ws, "ok")
       /\ UNCHANGED conns

\* the deal itself: roles to peers, PRIVATE_ROLE to each, night 1, ROOM_STATE
Deal(ws, room, roles) ==
    \E room1 \in {[room EXCEPT !.peers = dealPeers(room.peers, roles),
                               !.phase = "night", !.day = 1]} :
       /\ rooms' = RoomsSet(rooms, room.id, room1)
       /\ out' = dealMessages(conns, room1.peers)
                 \o broadcast(conns, room1, "ROOM_STATE", roomState(room1), NullId)
       /\ last' = Event("START_GAME", ws, "ok")
       /\ UNCHANGED conns

\* a faulty variant: START_GAME without the check of the number of peers
startGuardNoMinimum(room, ws) ==
    IF room.hostId # ws THEN "ONLY_HOST_CAN_START"
    ELSE IF room.phase # "lobby" THEN "ALREADY_STARTED"
    ELSE "ok"

\* the guards START_GAME passes before it deals; "ok" when it deals
startGuard(room, ws) ==
    IF room.hostId # ws THEN "ONLY_HOST_CAN_START"
    ELSE IF room.phase # "lobby" THEN "ALREADY_STARTED"
    ELSE IF Len(room.peers) < MinPlayers THEN "NEED_AT_LEAST_3_PLAYERS"
    ELSE "ok"

StartGame(ws) ==
    /\ variant = "counts"
    /\ conns[ws].state = "open"
    /\ InRegisteredRoom(ws)
    /\ UNCHANGED variant
    /\ \E g \in {startGuard(RoomOf(ws), ws)} :
       IF g # "ok"
       THEN Reject(ws, "START_GAME", g)
       ELSE \E r \in RandInputs :
               Deal(ws, RoomOf(ws),
                    Slice(shuffle(buildPool(RoomOf(ws).settings, Len(RoomOf(ws).peers)), r),
                          Len(RoomOf(ws).peers)))

\* ws.on("close", () => leaveRoom(ws))
Close(ws) ==
    /\ variant = "counts"
    /\ conns[ws].state = "open"
    /\ \E L \in {leaveRoom([conns EXCEPT ![ws].state = "closed"], rooms, ws)} :
          /\ conns' = L.conns
          /\ rooms' = L.rooms
          /\ out' = L.out
    /\ last' = Event("close", ws, "ok")
    /\ UNCHANGED variant

NextCounts ==
    \/ \E c \in ConnIds : Explore /\ Connect(c) /\ NoExtras
    \/ \E c \in ConnIds : Explore /\ CreateRoom(c) /\ NoExtras
    \/ \E c \in ConnIds, p \in JoinInputs : Explore /\ JoinRoom(c, p) /\ NoExtras
    \/ \E c \in ConnIds, v \in WideMaxPlayersInputs : Explore /\ UpdateSettings(c, v) /\ NoExtras
    \/ \E c \in ConnIds, k \in CountsInputs : Explore /\ UpdateRoleCounts(c, k) /\ NoExtras
    \/ \E c \in ConnIds : Explore /\ StartGame(c) /\ NoExtras
    \/ \E c \in ConnIds : Explore /\ Close(c) /\ NoExtras

InitConns == [c \in ConnIds |-> [state |-> "new", roomId |-> NullId, name |-> Null]]

InitCounts ==
    /\ variant = "counts"
    /\ conns = InitConns
    /\ rooms = <<>>
    /\ out = <<>>
    /\ last = [op |-> "boot", conn |-> NullId, result |-> "ok", n |-> 0]
    /\ timer = NoTimer
    /\ chat = NoChat

SpecCounts == InitCounts /\ [][NextCounts]_vars


(***************************************************************************)
(* The role-counts server with one connection more, for rooms of more than *)
(* MinMaxPlayers members: connections, rooms, joins, UPDATE_SETTINGS and   *)
(* closes only.                                                            *)
(***************************************************************************)
NextCrowd ==
    \/ \E c \in CrowdIds : Explore /\ Connect(c) /\ NoExtras
    \/ \E c \in CrowdIds : Explore /\ CreateRoom(c) /\ NoExtras
    \/ \E c \in CrowdIds, p \in JoinInputs : Explore /\ JoinRoom(c, p) /\ NoExtras
    \/ \E c \in CrowdIds, v \in WideMaxPlayersInputs : Explore /\ UpdateSettings(c, v) /\ NoExtras
    \/ \E c \in CrowdIds : Explore /\ Close(c) /\ NoExtras

InitCrowd ==
    /\ variant = "counts"
    /\ conns = [c \in CrowdIds |-> [state |-> "new", roomId |-> NullId, name |-> Null]]
    /\ rooms = <<>>
    /\ out = <<>>
    /\ last = [op |-> "boot", conn |-> NullId, result |-> "ok", n |-> 0]
    /\ timer = NoTimer
    /\ chat = NoChat

SpecCrowd == InitCrowd /\ [][NextCrowd]_vars


(***************************************************************************)
(* The role-pool server (src/server.js 1-191)                              *)
(***************************************************************************)
\* p.alive !== false
notFalse(p) == IF "alive" \in DOMAIN p THEN p.alive # FALSE ELSE TRUE

PoolRoomState(room) ==
    [phase    |-> room.phase,
     day      |-> room.day,
     settings |-> room.settings,
     peers    |-> [i \in DOMAIN room.peers |->
                      [id    |-> room.peers[i].id,
                       name  |-> Or(Get(room.peers[i], "name"), ""),
                       alive |-> notFalse(room.peers[i])]]]

PoolNewPeer(ws) == [id |-> ws, ws |-> ws]

PoolNewRoom(ws, id) ==
    [id |-> id, hostId |-> ws, phase |-> "lobby", day |-> 0,
     clients |-> <<ws>>, peers |-> <<PoolNewPeer(ws)>>,
     settings |-> [maxPlayers |-> DefaultMaxPlayers, rolePool |-> DefaultRolePool]]

PoolCreateRoom(ws) ==
    /\ variant = "pool"
    /\ conns[ws].state = "open"
    /\ \E id \in GeneratedCodes :
       \E room \in {PoolNewRoom(ws, id)} :
          /\ rooms' = RoomsSet(rooms, id, room)
          /\ conns' = [conns EXCEPT ![ws].roomId = id]
          /\ out' = send(conns', ws, "ROOM_CREATED", [roomId |-> id, hostId |-> ws])
                    \o send(conns', ws, "ROOM_STATE", PoolRoomState(room))
    /\ last' = Event("CREATE_ROOM", ws, "ok")
    /\ UNCHANGED variant

\* rooms.get(payload.roomId): the registry holds upper-case codes only
PoolLookup(p) == IF p.upper /\ p.code \in DOMAIN rooms THEN p.code ELSE NullId

PoolJoinRoom(ws, p) ==
    /\ variant = "pool"
    /\ conns[ws].state = "open"
    /\ UNCHANGED variant
    /\ \E roomId \in {PoolLookup(p)} :
       IF roomId = NullId
       THEN Reject(ws, "JOIN_ROOM", "ROOM_NOT_FOUND")
       ELSE IF roomIsFull(rooms[roomId])
       THEN Reject(ws, "JOIN_ROOM", "ROOM_FULL")
       ELSE
       \E room \in {addMember(rooms[roomId], ws, PoolNewPeer(ws))} :
          /\ rooms' = RoomsSet(rooms, roomId, room)
          /\ conns' = [conns EXCEPT ![ws].roomId = room.id]
          /\ out' = send(conns', ws, "JOINED", [roomId |-> room.id, hostId |-> room.hostId])
                    \o send(conns', ws, "ROOM_STATE", PoolRoomState(room))
                    \o broadcast(conns', room, "PEER_JOINED", [id |-> ws], ws)
          /\ last' = Event("JOIN_ROOM", ws, "ok")

\* payload.name of SET_NAME
NameInputs == {" ", " Ann "}

\* String(payload.name || "").trim().slice(0, 24), on the names above
TrimName(name) ==
    IF name = " " THEN ""
    ELSE IF name = " Ann " THEN "Ann"
    ELSE name

\* String.prototype.toLowerCase, on the names above
ToLowerCase(name) == IF name = "Ann" THEN "ann" ELSE name

\* some other peer of the room already has the name, whatever the case
nameExists(room, ws, raw) ==
    \E k \in DOMAIN room.peers :
       /\ ToLowerCase(Or(Get(room.peers[k], "name"), "")) = ToLowerCase(raw)
       /\ room.peers[k].ws # ws

\* peer = room.peers.get(ws.id); if (peer) peer.name = raw
renamePeer(room, ws, raw) ==
    [room EXCEPT !.peers = [k \in DOMAIN room.peers |->
                               IF room.peers[k].id = ws
                               THEN Assign(room.peers[k], "name", raw)
                               ELSE room.peers[k]]]

PoolPublish(ws, op, room) ==
    /\ rooms' = RoomsSet(rooms, room.id, room)
    /\ out' = broadcast(conns, room, "ROOM_STATE", PoolRoomState(room), NullId)
    /\ last' = Event(op, ws, "ok")
    /\ UNCHANGED conns

PoolSetName(ws, name) ==
    /\ variant = "pool"
    /\ conns[ws].state = "open"
    /\ InRegisteredRoom(ws)
    /\ UNCHANGED variant
    /\ \E raw \in {TrimName(name)} :
       IF raw = ""
       THEN Reject(ws, "SET_NAME", "NAME_REQUIRED")
       ELSE IF nameExists(RoomOf(ws), ws, raw)
       THEN Reject(ws, "SET_NAME", "NAME_TAKEN")
       ELSE PoolPublish(ws, "SET_NAME", renamePeer(RoomOf(ws), ws, raw))

PoolUpdateSettings(ws, v) ==
    /\ variant = "pool"
    /\ conns[ws].state = "open"
    /\ InRegisteredRoom(ws)
    /\ UNCHANGED variant
    /\ IF RoomOf(ws).hostId # ws
       THEN Reject(ws, "UPDATE_SETTINGS", "ONLY_HOST")
       ELSE PoolPublish(ws, "UPDATE_SETTINGS",
                        IF IsFinite(v)
                        THEN [RoomOf(ws) EXCEPT !.settings.maxPlayers = clampMaxPlayers(v.num)]
                        ELSE RoomOf(ws))

\* Array.isArray(payload.rolePool) ? payload.rolePool.map(String) : []
poolOf(v) == IF "array" \in DOMAIN v THEN v.array ELSE <<>>

PoolUpdateRolePool(ws, v) ==
    /\ variant = "pool"
    /\ conns[ws].state = "open"
    /\ InRegisteredRoom(ws)
    /\ UNCHANGED variant
    /\ IF RoomOf(ws).hostId # ws
       THEN Reject(ws, "UPDATE_ROLE_POOL", "ONLY_HOST")
       ELSE IF Len(poolOf(v)) < MinPlayers
       THEN Reject(ws, "UPDATE_ROLE_POOL", "ROLE_POOL_TOO_SMALL")
       ELSE PoolPublish(ws, "UPDATE_ROLE_POOL",
                        [RoomOf(ws) EXCEPT !.settings.rolePool = Slice(poolOf(v), MaxRolePool)])

PoolDeal(ws, room, roles) ==
    \E room1 \in {[room EXCEPT !.peers = dealPeers(room.peers, roles),
                               !.phase = "night", !.day = 1]} :
       /\ rooms' = RoomsSet(rooms, room.id, room1)
       /\ out' = dealMessages(conns, room1.peers)
                 \o broadcast(conns, room1, "ROOM_STATE", PoolRoomState(room1), NullId)
       /\ last' = Event("START_GAME", ws, "ok")
       /\ UNCHANGED conns

\* shuffle the pool, pad with citizens, shuffle again, slice to the player count
poolRoles(rolePool, n, r1, r2) ==
    Slice(shuffle(padCitizens(shuffle(rolePool, r1), n), r2), n)

PoolStartGame(ws) ==
    /\ variant = "pool"
    /\ conns[ws].state = "open"
    /\ InRegisteredRoom(ws)
    /\ UNCHANGED variant
    /\ \E g \in {startGuard(RoomOf(ws), ws)} :
       IF g # "ok"
       THEN Reject(ws, "START_GAME", g)
       ELSE \E r1 \in RandInputs, r2 \in RandInputs :
               PoolDeal(ws, RoomOf(ws),
                        poolRoles(RoomOf(ws).settings.rolePool, Len(RoomOf(ws).peers), r1, r2))

\* ws.on("close"): only the room ws.roomId names is touched
PoolClose(ws) ==
    /\ variant = "pool"
    /\ conns[ws].state = "open"
    /\ conns' = [conns EXCEPT ![ws].state = "closed"]
    /\ IF ~InRegisteredRoom(ws)
       THEN /\ out' = <<>>
            /\ UNCHANGED rooms
       ELSE \E room \in {removeMember(RoomOf(ws), ws)} :
               /\ out' = broadcast(conns', room, "PEER_LEFT", [id |-> ws], NullId)
               /\ rooms' = IF Len(room.clients) = 0
                           THEN RoomsDelete(rooms, room.id)
                           ELSE RoomsSet(rooms, room.id, room)
    /\ last' = Event("close", ws, "ok")
    /\ UNCHANGED variant

NextPool ==
    \/ \E c \in ConnIds : Explore /\ Connect(c) /\ NoExtras
    \/ \E c \in ConnIds : Explore /\ PoolCreateRoom(c) /\ NoExtras
    \/ \E c \in ConnIds, p \in JoinInputs : Explore /\ PoolJoinRoom(c, p) /\ NoExtras
    \/ \E c \in ConnIds, name \in NameInputs : Explore /\ PoolSetName(c, name) /\ NoExtras
    \/ \E c \in ConnIds, v \in MaxPlayersInputs : Explore /\ PoolUpdateSettings(c, v) /\ NoExtras
    \/ \E c \in ConnIds, v \in PoolInputs : Explore /\ PoolUpdateRolePool(c, v) /\ NoExtras
    \/ \E c \in ConnIds : Explore /\ PoolStartGame(c) /\ NoExtras
    \/ \E c \in ConnIds : Explore /\ PoolClose(c) /\ NoExtras

InitPool ==
    /\ variant = "pool"
    /\ conns = InitConns
    /\ rooms = <<>>
    /\ out = <<>>
    /\ last = [op |-> "boot", conn |-> NullId, result |-> "ok", n |-> 0]
    /\ timer = NoTimer
    /\ chat = NoChat

SpecPool == InitPool /\ [][NextPool]_vars


(***************************************************************************)
(* The whitelist server (src/unnamed/part_000 103-360)                     *)
(***************************************************************************)
\* payload.enabledRoles of UPDATE_ROLE_POOL: an array of strings, or no array
EnabledInputs ==
    { Array(<<"citizen", "pablo", "doctor">>),
      Array(<<"pablo", "joker", "pablo", "doctor", "citizen">>),
      Array(<<"pablo", "pablo", "joker", "doctor">>),
      NoArray }

WlRoomState(room) ==
    [roomId |-> room.id,
     hostId |-> room.hostId,
     phase  |-> room.phase,
     day    |-> room.day,
     peers  |-> [i \in DOMAIN room.peers |->
                    [id    |-> room.peers[i].id,
                     name  |-> Or(room.peers[i].name, "-"),
                     alive |-> room.peers[i].alive]],
     settings |-> [maxPlayers   |-> room.settings.maxPlayers,
                   roleCatalog  |-> room.settings.roleCatalog,
                   enabledRoles |-> room.settings.enabledRoles]]

\* the two broadcasts and the registry clean-up that end leaveRoom
WlLeaveDone(cs, rms, ws, room) ==
    [conns |-> [cs EXCEPT ![ws].roomId = NullId],
     rooms |-> IF Len(room.clients) = 0
               THEN RoomsDelete(rms, room.id)
               ELSE RoomsSet(rms, room.id, room),
     out   |-> broadcast(cs, room, "PEER_LEFT", [id |-> ws], NullId)
               \o broadcast(cs, room, "ROOM_STATE", WlRoomState(room), NullId),
     room  |-> room]

\* leaveRoom(ws); ws.roomId is cleared last, or at once when no room is found
WlLeaveRoom(cs, rms, ws) ==
    IF cs[ws].roomId = NullId
    THEN [conns |-> cs, rooms |-> rms, out |-> <<>>, room |-> NullId]
    ELSE IF cs[ws].roomId \notin DOMAIN rms
    THEN [conns |-> [cs EXCEPT ![ws].roomId = NullId], rooms |-> rms,
          out |-> <<>>, room |-> NullId]
    ELSE WlLeaveDone(cs, rms, ws,
                     promoteHost(removeMember(rms[cs[ws].roomId], ws), ws))

WlNewRoom(ws, id) ==
    [id |-> id, hostId |-> ws, phase |-> "lobby", day |-> 0,
     clients |-> <<>>, peers |-> <<>>,
     settings |-> [maxPlayers   |-> DefaultMaxPlayers,
                   roleCatalog  |-> ROLE_CATALOG,
                   enabledRoles |-> ROLE_CATALOG]]

WlCreateRoom(ws) ==
    /\ variant = "whitelist"
    /\ conns[ws].state = "open"
    /\ \E id \in GeneratedCodes :
       \E L \in {WlLeaveRoom(conns, rooms, ws)} :
       \E room \in {addMember(WlNewRoom(ws, id), ws, newPeer(ws, conns[ws].name, "Host"))} :
          /\ rooms' = RoomsSet(L.rooms, id, room)
          /\ conns' = [L.conns EXCEPT ![ws].roomId = id]
          /\ out' = L.out
                    \o send(conns', ws, "ROOM_CREATED", [roomId |-> id, hostId |-> room.hostId])
                    \o broadcast(conns', room, "ROOM_STATE", WlRoomState(room), NullId)
    /\ last' = Event("CREATE_ROOM", ws, "ok")
    /\ UNCHANGED variant

WlJoinRoom(ws, p) ==
    /\ variant = "whitelist"
    /\ conns[ws].state = "open"
    /\ UNCHANGED variant
    /\ \E roomId \in {ToUpperCase(p)} :
       IF roomId \notin DOMAIN rooms
       THEN Reject(ws, "JOIN_ROOM", "ROOM_NOT_FOUND")
       ELSE IF roomIsFull(rooms[roomId])
       THEN Reject(ws, "JOIN_ROOM", "ROOM_IS_FULL")
       ELSE
       \E L \in {WlLeaveRoom(conns, rooms, ws)} :
       \* `room` was looked up before leaveRoom ran: when the sender was in
       \* that very room it is the object leaveRoom mutated
       \E room \in {addMember(IF conns[ws].roomId = roomId THEN L.room ELSE rooms[roomId],
                              ws, newPeer(ws, conns[ws].name, "Guest"))} :
          /\ rooms' = IF roomId \in DOMAIN L.rooms
                      THEN RoomsSet(L.rooms, roomId, room)
                      ELSE L.rooms
          /\ conns' = [L.conns EXCEPT ![ws].roomId = room.id]
          /\ out' = L.out
                    \o send(conns', ws, "JOINED", [roomId |-> room.id, hostId |-> room.hostId])
                    \o broadcast(conns', room, "PEER_JOINED", [id |-> ws], NullId)
                    \o broadcast(conns', room, "ROOM_STATE", WlRoomState(room), NullId)
          /\ last' = Event("JOIN_ROOM", ws, "ok")

\* a host-only handler's successful end: store the room, broadcast ROOM_STATE
WlPublish(ws, op, room) ==
    /\ rooms' = RoomsSet(rooms, room.id, room)
    /\ out' = broadcast(conns, room, "ROOM_STATE", WlRoomState(room), NullId)
    /\ last' = Event(op, ws, "ok")
    /\ UNCHANGED conns

WlUpdateSettings(ws, v) ==
    /\ variant = "whitelist"
    /\ conns[ws].state = "open"
    /\ InRegisteredRoom(ws)
    /\ UNCHANGED variant
    /\ IF RoomOf(ws).hostId # ws
       THEN Reject(ws, "UPDATE_SETTINGS", "ONLY_HOST")
       ELSE WlPublish(ws, "UPDATE_SETTINGS",
                      IF IsFinite(v)
                      THEN [RoomOf(ws) EXCEPT !.settings.maxPlayers = clampMaxPlayers(v.num)]
                      ELSE RoomOf(ws))

\* Array.isArray(payload.enabledRoles) ? payload.enabledRoles.map(String) : []
enabledInput(v) == IF "array" \in DOMAIN v THEN v.array ELSE <<>>

\* input.forEach(r => { if (catalogSet.has(r) && !filtered.includes(r))
\*                        filtered.push(r); }), filtered being `acc` so far
RECURSIVE filterRoles(_, _, _)
filterRoles(catalog, input, acc) ==
    IF input = <<>> THEN acc
    ELSE filterRoles(catalog, Tail(input),
                     IF Head(input) \in Range(catalog) /\ Head(input) \notin Range(acc)
                     THEN Append(acc, Head(input))
                     ELSE acc)

WlUpdateRolePool(ws, v) ==
    /\ variant = "whitelist"
    /\ conns[ws].state = "open"
    /\ InRegisteredRoom(ws)
    /\ UNCHANGED variant
    /\ IF RoomOf(ws).hostId # ws
       THEN Reject(ws, "UPDATE_ROLE_POOL", "ONLY_HOST")
       ELSE \E filtered \in {filterRoles(RoomOf(ws).settings.roleCatalog,
                                         enabledInput(v), <<>>)} :
               IF Len(filtered) < MinEnabledRoles
               THEN Reject(ws, "UPDATE_ROLE_POOL", "ROLE_POOL_TOO_SMALL")
               ELSE WlPublish(ws, "UPDATE_ROLE_POOL",
                              [RoomOf(ws) EXCEPT !.settings.enabledRoles = filtered])

\* peers.forEach, phase and day, and the closing broadcast of START_GAME
WlDeal(ws, room, roles) ==
    \E room1 \in {[room EXCEPT !.peers = dealPeers(room.peers, roles),
                               !.phase = "night",
                               !.day = 1]} :
       /\ rooms' = RoomsSet(rooms, room1.id, room1)
       /\ out' = dealMessages(conns, room1.peers)
                 \o broadcast(conns, room1, "ROOM_STATE", WlRoomState(room1), NullId)
       /\ last' = Event("START_GAME", ws, "ok")
       /\ UNCHANGED conns

\* pool = shuffle([...enabledRoles]), padded with citizens, shuffled again
\* and cut to the number of peers; r1 and r2 are the draws of the two shuffles
WlRoles(room, r1, r2) ==
    Slice(shuffle(padCitizens(shuffle(room.settings.enabledRoles, r1), Len(room.peers)), r2),
          Len(room.peers))

WlStartGame(ws) ==
    /\ variant = "whitelist"
    /\ conns[ws].state = "open"
    /\ InRegisteredRoom(ws)
    /\ UNCHANGED variant
    /\ \E g \in {startGuard(RoomOf(ws), ws)} :
       IF g # "ok"
       THEN Reject(ws, "START_GAME", g)
       ELSE \E r1 \in WlRandInputs, r2 \in WlRandInputs :
               WlDeal(ws, RoomOf(ws), WlRoles(RoomOf(ws), r1, r2))

\* ws.on("close", () => leaveRoom(ws))
WlClose(ws) ==
    /\ variant = "whitelist"
    /\ conns[ws].state = "open"
    /\ \E L \in {WlLeaveRoom([conns EXCEPT ![ws].state = "closed"], rooms, ws)} :
          /\ conns' = L.conns
          /\ rooms' = L.rooms
          /\ out' = L.out
    /\ last' = Event("close", ws, "ok")
    /\ UNCHANGED variant

NextWhitelist ==
    \/ \E c \in ConnIds : Explore /\ Connect(c) /\ NoExtras
    \/ \E c \in ConnIds : Explore /\ WlCreateRoom(c) /\ NoExtras
    \/ \E c \in ConnIds, p \in JoinInputs : Explore /\ WlJoinRoom(c, p) /\ NoExtras
    \/ \E c \in ConnIds, v \in MaxPlayersInputs : Explore /\ WlUpdateSettings(c, v) /\ NoExtras
    \/ \E c \in ConnIds, v \in EnabledInputs : Explore /\ WlUpdateRolePool(c, v) /\ NoExtras
    \/ \E c \in ConnIds : Explore /\ WlStartGame(c) /\ NoExtras
    \/ \E c \in ConnIds : Explore /\ WlClose(c) /\ NoExtras

InitWhitelist ==
    /\ variant = "whitelist"
    /\ conns = InitConns
    /\ rooms = <<>>
    /\ out = <<>>
    /\ last = [op |-> "boot", conn |-> NullId, result |-> "ok", n |-> 0]
    /\ timer = NoTimer
    /\ chat = NoChat

SpecWhitelist == InitWhitelist /\ [][NextWhitelist]_vars


(***************************************************************************)
(* Either server                                                           *)
(***************************************************************************)
Init ==
    /\ variant \in {"pool", "counts"}
    /\ conns = InitConns
    /\ rooms = <<>>
    /\ out = <<>>
    /\ last = [op |-> "boot", conn |-> NullId, result |-> "ok", n |-> 0]
    /\ timer = NoTimer
    /\ chat = NoChat

Next == NextCounts \/ NextPool

Spec == Init /\ [][Next]_vars

(***************************************************************************)
(* The phase timer, from section 4.4 of the specification document: start, *)
(* tick, pause / resume.  timer.paused is the room-level paused flag;      *)
(* durationMs and ticks record what the timer was started with and how     *)
(* many ticks have fired since.                                            *)
(***************************************************************************)
TickMs == 1000

\* payload.ms and payload.phase of START_TIMER
DurationInputs == {0, 2500, 5000}
PhaseInputs == {"lobby", "night", "day"}

\* payload of PAUSE_GAME: a toggle or an explicit value
PauseInputs == {"toggle", "pause", "resume"}

TimerEvent(op) == [op |-> op, conn |-> NullId, result |-> "ok", n |-> 0]

\* the timer-state event, broadcast to the room
TimerState(t) ==
    Msg(NullId, "TIMER", [remainingMs |-> t.remainingMs, running |-> t.running, phase |-> t.phase])

\* start(durationMs, phase): cancels any existing timer and starts anew
StartTimer(ms, ph) ==
    /\ timer' = [exists |-> TRUE, paused |-> timer.paused,
                 remainingMs |-> ms, running |-> TRUE, phase |-> ph,
                 durationMs |-> ms, ticks |-> 0]
    /\ out' = <<TimerState(timer')>>
    /\ last' = TimerEvent("START_TIMER")
    /\ UNCHANGED <<variant, conns, rooms, chat>>

\* a faulty variant: the tick does not look at the paused flag
TickEnabledWhilePaused == timer.exists /\ timer.running

\* a tick fires while the timer is running and the room is not paused
TickEnabled == timer.exists /\ timer.running /\ ~timer.paused

\* tick: remainingMs less 1000, floored at 0; at 0 the timer has expired
Tick ==
    /\ TickEnabled
    /\ \E left \in {Max(0, timer.remainingMs - TickMs)} :
          /\ timer' = [timer EXCEPT !.remainingMs = left,
                                    !.running = (left # 0),
                                    !.ticks = @ + 1]
          /\ out' = IF left = 0
                    THEN <<TimerState([timer' EXCEPT !.running = TRUE]), TimerState(timer')>>
                    ELSE <<TimerState(timer')>>
    /\ last' = TimerEvent("tick")
    /\ UNCHANGED <<variant, conns, rooms, chat>>

\* pause / resume: the room-level flag; the timer itself is not touched
PauseGame(v) ==
    /\ timer' = [timer EXCEPT !.paused = IF v = "toggle" THEN ~timer.paused ELSE v = "pause"]
    /\ out' = <<Msg(NullId, "PAUSED", [paused |-> timer'.paused])>>
    /\ last' = TimerEvent("PAUSE_GAME")
    /\ UNCHANGED <<variant, conns, rooms, chat>>

NextTimer ==
    \/ \E ms \in DurationInputs, ph \in PhaseInputs : StartTimer(ms, ph)
    \/ Tick
    \/ \E v \in PauseInputs : PauseGame(v)

InitTimer ==
    /\ variant = "timer"
    /\ conns = InitConns
    /\ rooms = <<>>
    /\ out = <<>>
    /\ last = TimerEvent("boot")
    /\ timer = NoTimer
    /\ chat = NoChat

SpecTimer == InitTimer /\ [][NextTimer]_vars


(***************************************************************************)
(* The privileged channel, from sections 3, 4.2 and 4.6 of the             *)
(* specification document.  chat is one room as that document describes    *)
(* it: a phase, peers that keep their record while disconnected, and the   *)
(* privileged-chat log.  A peer is named by its key.                       *)
(***************************************************************************)
MaxChatLog == 2    \* privileged messages accepted in one behaviour

\* the roles a deal hands out here, and the configured privileged subset
ChatRoles == {"pablo", "martinez", "citizen"}
PrivilegedRoles == {"pablo", "martinez"}

\* payload.text of PRIVILEGED_CHAT_SEND, trimmed
TextInputs == {"", "hi"}

ChatEvent(op, k, result) == [op |-> op, conn |-> k, result |-> result, n |-> 0]

IsPrivileged(p) == p.role \in PrivilegedRoles

\* a faulty variant: the message goes to every connected peer
ChatRecipientsAllConnected(peers) == {k \in DOMAIN peers : peers[k].connected}

\* the peers a privileged message is delivered to: connected, and holding a
\* privileged role now
ChatRecipients(peers) == {k \in DOMAIN peers : peers[k].connected /\ IsPrivileged(peers[k])}

\* one message to each of the recipients, by key
ChatDeliver(recipients, type, payload) ==
    [i \in 1..Cardinality(recipients) |->
        Msg(CHOOSE k \in recipients : Cardinality({j \in recipients : j < k}) = i - 1,
            type, payload)]

\* the room with its peers, all connected, before any deal
ChatOpen ==
    /\ ~chat.exists
    /\ chat' = [exists |-> TRUE, phase |-> "lobby", log |-> <<>>,
                peers |-> [k \in ConnIds |-> [connected |-> TRUE, role |-> Null]]]
    /\ out' = <<>>
    /\ last' = ChatEvent("CREATE_ROOM", NullId, "ok")
    /\ UNCHANGED <<variant, conns, rooms, timer>>

\* START_GAME in the lobby: every peer gets a role, the phase becomes night
ChatDeal(roles) ==
    /\ chat.exists /\ chat.phase = "lobby"
    /\ chat' = [chat EXCEPT !.phase = "night",
                            !.peers = [k \in ConnIds |-> [chat.peers[k] EXCEPT !.role = roles[k]]]]
    /\ out' = ChatDeliver({k \in ConnIds : chat.peers[k].connected}, "ROOM_STATE", [phase |-> "night"])
    /\ last' = ChatEvent("START_GAME", NullId, "ok")
    /\ UNCHANGED <<variant, conns, rooms, timer>>

\* SET_PHASE of the host: overrides the phase
ChatSetPhase(ph) ==
    /\ chat.exists /\ chat.phase # ph
    /\ chat' = [chat EXCEPT !.phase = ph]
    /\ out' = ChatDeliver({k \in ConnIds : chat.peers[k].connected}, "ROOM_STATE", [phase |-> ph])
    /\ last' = ChatEvent("SET_PHASE", NullId, "ok")
    /\ UNCHANGED <<variant, conns, rooms, timer>>

\* the connection of peer k closes: the record stays, the connection is nulled
ChatDisconnect(k) ==
    /\ chat.exists /\ chat.peers[k].connected
    /\ chat' = [chat EXCEPT !.peers[k].connected = FALSE]
    /\ out' = <<>>
    /\ last' = ChatEvent("close", k, "ok")
    /\ UNCHANGED <<variant, conns, rooms, timer>>

\* RECONNECT with the key of peer k: the role as a private message, and the
\* whole backlog if the role is privileged
ChatReconnect(k) ==
    /\ chat.exists /\ ~chat.peers[k].connected
    /\ chat' = [chat EXCEPT !.peers[k].connected = TRUE]
    /\ out' = <<Msg(k, "RECONNECTED", [key |-> k])>>
              \o (IF chat.peers[k].role # Null
                  THEN <<Msg(k, "PRIVATE_ROLE", [role |-> chat.peers[k].role])>> ELSE <<>>)
              \o (IF IsPrivileged(chat.peers[k])
                  THEN <<Msg(k, "PRIVILEGED_CHAT_HISTORY", [entries |-> chat.log])>> ELSE <<>>)
    /\ last' = ChatEvent("RECONNECT", k, "ok")
    /\ UNCHANGED <<variant, conns, rooms, timer>>

\* why a PRIVILEGED_CHAT_SEND of peer k is refused; "ok" when it is accepted
chatGuard(k, text) ==
    IF ~IsPrivileged(chat.peers[k]) THEN "NOT_PRIVILEGED"
    ELSE IF chat.phase # "night" THEN "NOT_NIGHT"
    ELSE IF text = "" THEN "TEXT_REQUIRED"
    ELSE "ok"

\* PRIVILEGED_CHAT_SEND from the connection of peer k
ChatSend(k, text) ==
    /\ chat.exists /\ chat.peers[k].connected
    /\ Len(chat.log) < MaxChatLog
    /\ \E g \in {chatGuard(k, text)} :
          /\ last' = ChatEvent("PRIVILEGED_CHAT_SEND", k, g)
          /\ IF g # "ok"
             THEN /\ out' = <<Msg(k, "ERROR", [message |-> g])>>
                  /\ UNCHANGED chat
             ELSE \E entry \in {[fromKey |-> k, text |-> text]} :
                     /\ chat' = [chat EXCEPT !.log = Append(@, entry)]
                     /\ out' = ChatDeliver(ChatRecipients(chat.peers), "PRIVILEGED_CHAT", entry)
    /\ UNCHANGED <<variant, conns, rooms, timer>>

NextChat ==
    \/ ChatOpen
    \/ \E roles \in [ConnIds -> ChatRoles] : ChatDeal(roles)
    \/ \E ph \in PhaseInputs : ChatSetPhase(ph)
    \/ \E k \in ConnIds : ChatDisconnect(k)
    \/ \E k \in ConnIds : ChatReconnect(k)
    \/ \E k \in ConnIds, text \in TextInputs : ChatSend(k, text)

InitChat ==
    /\ variant = "chat"
    /\ conns = InitConns
    /\ rooms = <<>>
    /\ out = <<>>
    /\ last = ChatEvent("boot", NullId, "ok")
    /\ timer = NoTimer
    /\ chat = NoChat

SpecChat == InitChat /\ [][NextChat]_vars


(***************************************************************************)
(* Vocabulary of the properties                                            *)
(***************************************************************************)
HasRole(p) == Get(p, "role") \notin {Null, Undefined}

IsAlive(p) == "alive" \in DOMAIN p /\ p.alive = TRUE

\* the last event was a START_GAME that dealt the roles
StartOk == last.op = "START_GAME" /\ last.result = "ok"

\* the PRIVATE_ROLE messages of the last handler that went to connection c
RoleMessagesTo(c) == {i \in DOMAIN out : out[i].type = "PRIVATE_ROLE" /\ out[i].to = c}

\* a ROOM_STATE payload's peer entries, or any other payload, carry no role
CarriesNoRole(payload) ==
    /\ "role" \notin DOMAIN payload
    /\ "peers" \in DOMAIN payload =>
          \A k \in DOMAIN payload.peers : "role" \notin DOMAIN payload.peers[k]

RECURSIVE SumCounts(_, _)
SumCounts(catalog, counts) ==
    IF catalog = <<>> THEN 0
    ELSE counts[Head(catalog)] + SumCounts(Tail(catalog), counts)

DealtCount(room, r) ==
    Cardinality({k \in DOMAIN room.peers : Get(room.peers[k], "role") = r})


(***************************************************************************)
(* C1  Role secrecy.  Of the messages a handler sends, a PRIVATE_ROLE goes *)
(* to the connection of the peer whose role it carries, and to no other;   *)
(* every other message (ROOM_STATE, PEER_JOINED, PEER_LEFT, JOINED,        *)
(* ROOM_CREATED, ERROR, hello) carries no peer's role.                     *)
(***************************************************************************)
C1_RoleSecrecy ==
    \A i \in DOMAIN out :
        IF out[i].type = "PRIVATE_ROLE"
        THEN /\ InRegisteredRoom(last.conn)
             /\ \E k \in DOMAIN RoomOf(last.conn).peers :
                   /\ RoomOf(last.conn).peers[k].id = out[i].to
                   /\ RoomOf(last.conn).peers[k].ws = out[i].to
                   /\ Get(RoomOf(last.conn).peers[k], "role") = out[i].payload.role
        ELSE CarriesNoRole(out[i].payload)

\* a deal that sent two different roles and the public snapshot after them
C1_Witness ==
    /\ StartOk
    /\ \E i, j \in DOMAIN out :
          /\ out[i].type = "PRIVATE_ROLE" /\ out[j].type = "PRIVATE_ROLE"
          /\ out[i].to # out[j].to
          /\ out[i].payload.role # out[j].payload.role
    /\ \E i \in DOMAIN out : out[i].type = "ROOM_STATE"


(***************************************************************************)
(* C2  After a successful START_GAME every peer of the room holds a role,  *)
(* is alive, and was sent exactly one PRIVATE_ROLE, carrying its role.     *)
(***************************************************************************)
C2_EveryPeerGetsItsRole ==
    StartOk =>
        \A k \in DOMAIN RoomOf(last.conn).peers :
            /\ HasRole(RoomOf(last.conn).peers[k])
            /\ IsAlive(RoomOf(last.conn).peers[k])
            /\ Cardinality(RoleMessagesTo(RoomOf(last.conn).peers[k].id)) = 1
            /\ \A i \in RoleMessagesTo(RoomOf(last.conn).peers[k].id) :
                  out[i].payload.role = RoomOf(last.conn).peers[k].role

(***************************************************************************)
(* C3  The roles START_GAME deals, one per peer, are drawn from the pool   *)
(* that repeats each catalog role roleCounts[role] times and is padded     *)
(* with citizen up to the number N of peers: no role is dealt more often   *)
(* than the padded pool holds it, and when the counts sum to N or less     *)
(* every instance of the padded pool is dealt.                             *)
(***************************************************************************)
PaddedCount(room, r) ==
    room.settings.roleCounts[r]
    + (IF r = "citizen"
       THEN Max(0, Len(room.peers)
                   - SumCounts(room.settings.roleCatalog, room.settings.roleCounts))
       ELSE 0)

C3_DealtFromCounts ==
    StartOk =>
        /\ \A k \in DOMAIN RoomOf(last.conn).peers :
              Get(RoomOf(last.conn).peers[k], "role") \in Range(ROLE_CATALOG)
        /\ \A r \in Range(ROLE_CATALOG) :
              /\ DealtCount(RoomOf(last.conn), r) <= PaddedCount(RoomOf(last.conn), r)
              /\ SumCounts(ROLE_CATALOG, RoomOf(last.conn).settings.roleCounts)
                     <= Len(RoomOf(last.conn).peers)
                 => DealtCount(RoomOf(last.conn), r) = PaddedCount(RoomOf(last.conn), r)

\* a deal from counts that sum to more than the number of peers
C3_Witness ==
    /\ StartOk
    /\ variant = "counts"
    /\ SumCounts(ROLE_CATALOG, RoomOf(last.conn).settings.roleCounts)
          > Len(RoomOf(last.conn).peers)
    /\ DealtCount(RoomOf(last.conn), "pablo") = 1

(***************************************************************************)
(* C4  START_GAME from the host of a room with fewer than 3 peers is       *)
(* answered with NEED_AT_LEAST_3_PLAYERS to the host alone and changes     *)
(* nothing: the phase stays lobby, the day 0, no peer gets a role.         *)
(***************************************************************************)
HandlesStartFrom(ws) == last'.op = "START_GAME" /\ last'.conn = ws

HostBelowMinimum(ws) ==
    /\ InRegisteredRoom(ws)
    /\ RoomOf(ws).hostId = ws
    /\ Len(RoomOf(ws).peers) < MinPlayers

RefusedForTooFewPlayers(ws) ==
    /\ out' = <<Msg(ws, "ERROR", [message |-> "NEED_AT_LEAST_3_PLAYERS"])>>
    /\ rooms' = rooms
    /\ conns' = conns
    /\ rooms'[conns[ws].roomId].phase = "lobby"
    /\ rooms'[conns[ws].roomId].day = 0
    /\ \A k \in DOMAIN rooms'[conns[ws].roomId].peers :
          ~HasRole(rooms'[conns[ws].roomId].peers[k])

\* C4 as claimed: whatever the phase of the room
C4_Original ==
    [][\A ws \in ConnIds :
          HandlesStartFrom(ws) /\ HostBelowMinimum(ws) => RefusedForTooFewPlayers(ws)]_vars

\* C4 as amended: START_GAME from the host of a room in the lobby phase with
\* fewer than 3 peers is answered with NEED_AT_LEAST_3_PLAYERS and changes nothing
C4_RefusedInLobby ==
    [][\A ws \in ConnIds :
          HandlesStartFrom(ws) /\ HostBelowMinimum(ws) /\ RoomOf(ws).phase = "lobby"
              => RefusedForTooFewPlayers(ws)]_vars

C4_Witness ==
    /\ last.op = "START_GAME"
    /\ last.result = "NEED_AT_LEAST_3_PLAYERS"
    /\ Len(RoomOf(last.conn).peers) = 2
    /\ RoomOf(last.conn).phase = "lobby"

(***************************************************************************)
(* C5  Roles are dealt at most once per room: the host's START_GAME in a   *)
(* room whose phase is not lobby is answered with ALREADY_STARTED and      *)
(* changes nothing, and a peer's role, once assigned, never changes while  *)
(* the peer is in the room.                                                *)
(***************************************************************************)
\* the roles of the peers of room rid that are still its peers after the step
RolesKept(rid) ==
    \A k \in DOMAIN rooms[rid].peers, k2 \in DOMAIN rooms'[rid].peers :
        /\ HasRole(rooms[rid].peers[k])
        /\ rooms'[rid].peers[k2].id = rooms[rid].peers[k].id
        => Get(rooms'[rid].peers[k2], "role") = rooms[rid].peers[k].role

\* a CREATE_ROOM puts a new room object in the registry: under a code that
\* was registered it is another room, not a change of the old one
SameRooms == IF last'.op = "CREATE_ROOM" THEN {} ELSE (DOMAIN rooms) \cap (DOMAIN rooms')

C5_RolesDealtOnce ==
    [][/\ \A ws \in ConnIds :
             /\ HandlesStartFrom(ws)
             /\ InRegisteredRoom(ws)
             /\ RoomOf(ws).hostId = ws
             /\ RoomOf(ws).phase # "lobby"
             => /\ out' = <<Msg(ws, "ERROR", [message |-> "ALREADY_STARTED"])>>
                /\ rooms' = rooms
       /\ \A rid \in SameRooms : RolesKept(rid)]_vars

(***************************************************************************)
(* C6  Host authority: the settings, the phase, the day and the peers'     *)
(* roles of a room change only in a step that handles a message of the     *)
(* connection that is the room's host.                                     *)
(***************************************************************************)
C6_HostAuthority ==
    [][\A rid \in SameRooms :
          \/ /\ rooms'[rid].settings = rooms[rid].settings
             /\ rooms'[rid].phase = rooms[rid].phase
             /\ rooms'[rid].day = rooms[rid].day
             /\ RolesKept(rid)
          \/ /\ last'.conn = rooms[rid].hostId
             /\ conns[last'.conn].roomId = rid]_vars

(***************************************************************************)
(* C7  Every registered room that has a peer has for hostId the id of one  *)
(* of its peers.                                                           *)
(***************************************************************************)
C7_HostIsAPeer ==
    \A rid \in DOMAIN rooms :
        rooms[rid].peers # <<>> => rooms[rid].hostId \in PeerIds(rooms[rid])

(***************************************************************************)
(* C8  Every ROOM_STATE message names as hostId a peer that is a member of *)
(* the room when the message is sent (the peers the message lists).        *)
(***************************************************************************)
C8_RoomStateNamesAMemberAsHost ==
    \A i \in DOMAIN out :
        out[i].type = "ROOM_STATE" /\ "hostId" \in DOMAIN out[i].payload
        => \E k \in DOMAIN out[i].payload.peers :
              out[i].payload.peers[k].id = out[i].payload.hostId

(***************************************************************************)
(* C9  Every registered room has a live connection among its clients, and  *)
(* no closed connection is a client of a registered room.                  *)
(***************************************************************************)
C9_RegisteredRoomsAreLive ==
    \A rid \in DOMAIN rooms :
        /\ rooms[rid].clients # <<>>
        /\ \A i \in DOMAIN rooms[rid].clients : conns[rooms[rid].clients[i]].state = "open"

(***************************************************************************)
(* C10  CREATE_ROOM never replaces a registered room: a room that has      *)
(* members besides the creator stays registered under its code with those  *)
(* members.                                                                *)
(***************************************************************************)
C10_CreateNeverReplaces ==
    [][last'.op = "CREATE_ROOM" =>
          \A rid \in DOMAIN rooms :
              Range(rooms[rid].clients) \ {last'.conn} # {}
              => /\ rid \in DOMAIN rooms'
                 /\ (Range(rooms[rid].clients) \ {last'.conn}) \subseteq Range(rooms'[rid].clients)
                 /\ (PeerIds(rooms[rid]) \ {last'.conn}) \subseteq PeerIds(rooms'[rid])]_vars

(***************************************************************************)
(* C11  A JOIN_ROOM that names a registered room is refused with the       *)
(* room-full error, and changes nothing, exactly when the room has at      *)
(* least maxPlayers clients when the message is handled; after a JOIN_ROOM *)
(* that is accepted the room has at most maxPlayers clients.               *)
(***************************************************************************)
\* the step handled a JOIN_ROOM of connection c that named the registered
\* room rid; `code` is the server's room-full error
JoinOutcome(c, rid, code) ==
    rid \in DOMAIN rooms =>
       IF Cardinality(Range(rooms[rid].clients)) >= rooms[rid].settings.maxPlayers
       THEN /\ last'.result = code
            /\ out' = <<Msg(c, "ERROR", [message |-> code])>>
            /\ rooms' = rooms
            /\ conns' = conns
       ELSE /\ last'.result = "ok"
            /\ conns'[c].roomId = rid
            /\ rid \in DOMAIN rooms' =>
                  /\ c \in Range(rooms'[rid].clients)
                  /\ Cardinality(Range(rooms'[rid].clients))
                        <= rooms'[rid].settings.maxPlayers

C12_RoleCountsInRange ==
    variant = "counts" =>
       \A rid \in DOMAIN rooms :
          /\ DOMAIN rooms[rid].settings.roleCounts = Range(rooms[rid].settings.roleCatalog)
          /\ \A r \in DOMAIN rooms[rid].settings.roleCounts :
                rooms[rid].settings.roleCounts[r] \in 0..50

\* the host sent counts with a negative, an over-50, a fractional and a missing
\* role: -1 -> 0, 51 -> 50, 2.5 -> 2, missing -> 0
C12_Witness ==
    /\ last.op = "UPDATE_ROLE_COUNTS" /\ last.result = "ok"
    /\ \E rid \in DOMAIN rooms :
          /\ rooms[rid].settings.roleCounts["pablo"] = 0
          /\ rooms[rid].settings.roleCounts["blanco"] = 50
          /\ rooms[rid].settings.roleCounts["churchill"] = 2
          /\ rooms[rid].settings.roleCounts["moreno"] = 1
          /\ rooms[rid].settings.roleCounts["citizen"] = 0

(***************************************************************************)
(* C13  settings.maxPlayers of every room is within [3, 20]: it is 11 at   *)
(* creation, an UPDATE_SETTINGS of the host with a finite number sets it   *)
(* to that number clamped to [3, 20], and one with a non-numeric value     *)
(* leaves it unchanged.                                                    *)
(***************************************************************************)
\* settings.maxPlayers after the host's UPDATE_SETTINGS with payload v
ClaimedMaxPlayers(old, v) ==
    IF "num" \notin DOMAIN v THEN old
    ELSE IF v.num < 3 THEN 3
    ELSE IF v.num > 20 THEN 20
    ELSE v.num

C14_PeerRecordSurvivesClose ==
    [][last'.op = "close" =>
          \A rid \in (DOMAIN rooms) \cap (DOMAIN rooms') :
             \A k \in DOMAIN rooms[rid].peers :
                rooms[rid].peers[k].id = last'.conn
                => \E k2 \in DOMAIN rooms'[rid].peers :
                      /\ rooms'[rid].peers[k2].id = last'.conn
                      /\ Get(rooms'[rid].peers[k2], "name") = Get(rooms[rid].peers[k], "name")
                      /\ Get(rooms'[rid].peers[k2], "role") = Get(rooms[rid].peers[k], "role")
                      /\ Get(rooms'[rid].peers[k2], "alive") = Get(rooms[rid].peers[k], "alive")]_vars

(***************************************************************************)
(* C15  Phase timer: after a start with durationMs = 5000, five ticks      *)
(* yield remainingMs 4000, 3000, 2000, 1000, 0, and running becomes false  *)
(* exactly at the tick that reaches 0; remainingMs = 0 implies that the    *)
(* timer is not running; while the room is paused no tick changes          *)
(* remainingMs.                                                            *)
(***************************************************************************)
\* a timer started with 5000 has 5000 - 1000 * ticks left after its ticks
\* and runs until the fifth
FiveTicks(t) ==
    t.exists /\ t.durationMs = 5000
    => /\ t.ticks \in 0..5
       /\ t.remainingMs = 5000 - 1000 * t.ticks
       /\ t.running = (t.ticks < 5)

\* between two states in which the room is paused only a new start changes
\* remainingMs
FrozenWhilePaused ==
    timer.exists /\ timer.paused /\ timer'.paused /\ last'.op # "START_TIMER"
    => timer'.remainingMs = timer.remainingMs /\ timer'.running = timer.running

\* C15 as claimed: remainingMs = 0 implies running = false in every state
C15_Original ==
    [][/\ FiveTicks(timer')
       /\ timer'.exists /\ timer'.remainingMs = 0 => ~timer'.running
       /\ FrozenWhilePaused]_vars

\* C15 as amended: remainingMs = 0 implies running = false for a timer
\* started with a positive duration
C15_PhaseTimer ==
    [][/\ FiveTicks(timer')
       /\ timer'.exists /\ timer'.durationMs > 0 /\ timer'.remainingMs = 0 => ~timer'.running
       /\ FrozenWhilePaused]_vars

\* a timer started with 5000 has expired at its fifth tick
C15_Witness ==
    /\ timer.exists /\ timer.durationMs = 5000
    /\ timer.ticks = 5 /\ timer.remainingMs = 0 /\ ~timer.running
    /\ last.op = "tick"

\* a timer started with 5000 stands at 3000 in a paused room
C15_PausedWitness ==
    /\ timer.exists /\ timer.durationMs = 5000 /\ timer.paused
    /\ timer.ticks = 2 /\ timer.remainingMs = 3000 /\ timer.running

(***************************************************************************)
(* C16  Privileged channel: a privileged chat message is accepted only     *)
(* while the phase is night and only from a peer whose role is privileged; *)
(* a privileged chat message or its history is sent only to a connected    *)
(* peer whose current role is privileged.                                  *)
(***************************************************************************)
PrivilegedTypes == {"PRIVILEGED_CHAT", "PRIVILEGED_CHAT_HISTORY"}

C16_PrivilegedChannel ==
    [][/\ chat'.exists /\ chat.exists /\ chat'.log # chat.log
          => /\ last'.op = "PRIVILEGED_CHAT_SEND"
             /\ chat.phase = "night"
             /\ chat.peers[last'.conn].role \in {"pablo", "martinez"}
       /\ \A i \in DOMAIN out' :
             out'[i].type \in PrivilegedTypes
             => /\ chat'.peers[out'[i].to].connected
                /\ chat'.peers[out'[i].to].role \in {"pablo", "martinez"}]_vars

\* a privileged message went to some peers while another connected peer,
\* who holds no privileged role, got nothing
C16_Witness ==
    /\ chat.exists
    /\ last.op = "PRIVILEGED_CHAT_SEND" /\ last.result = "ok"
    /\ \E i \in DOMAIN out : out[i].type = "PRIVILEGED_CHAT"
    /\ \E k \in ConnIds :
          /\ chat.peers[k].connected /\ chat.peers[k].role = "citizen"
          /\ \A i \in DOMAIN out : out[i].to # k

(***************************************************************************)
(* C17  Every ERROR message goes only to the connection whose message      *)
(* caused it, and the step that sends it changes no state: not the         *)
(* registry, not any room, not the room membership of the sender.          *)
(***************************************************************************)
C17_ErrorsChangeNothing ==
    [][(\E i \in DOMAIN out' : out'[i].type = "ERROR")
          => /\ \A i \in DOMAIN out' :
                   /\ out'[i].type = "ERROR"
                   /\ out'[i].to = last'.conn
                   /\ out'[i].payload.message = last'.result
             /\ Len(out') = 1
             /\ rooms' = rooms
             /\ conns' = conns]_vars

\* a member of a room was refused a JOIN_ROOM and is still in its room
C17_Witness ==
    /\ last.op = "JOIN_ROOM" /\ last.result # "ok"
    /\ InRegisteredRoom(last.conn)
    /\ last.conn \in Range(RoomOf(last.conn).clients)
    /\ out = <<Msg(last.conn, "ERROR", [message |-> last.result])>>

\* a SET_NAME was refused because another peer has the name
C17_NameTaken == last.op = "SET_NAME" /\ last.result = "NAME_TAKEN"

(***************************************************************************)
(* C18  Host succession: when the host leaves a room in which peers        *)
(* remain, the new hostId is the id of the remaining peer that joined      *)
(* earliest; when a peer that is not the host leaves, hostId is unchanged. *)
(***************************************************************************)
\* the step made connection c leave the registered room rid (by a close, or
\* by a CREATE_ROOM or JOIN_ROOM, which leave first), and the room object is
\* still the one registered under rid
LeavesRoom(c, rid) ==
    /\ last'.conn = c
    /\ last'.op \in {"close", "CREATE_ROOM", "JOIN_ROOM"}
    /\ last'.result = "ok"
    /\ conns[c].roomId = rid
    /\ rid \in (DOMAIN rooms) \cap (DOMAIN rooms')
    /\ ~(last'.op = "CREATE_ROOM" /\ conns'[c].roomId = rid)

\* the peers of room rid other than c, in the order they joined
Remaining(rid, c) == SelectSeq(rooms[rid].peers, LAMBDA p : p.id # c)

C18_HostSuccession ==
    [][\A c \in ConnIds, rid \in RoomIds :
          LeavesRoom(c, rid)
          => IF rooms[rid].hostId # c
             THEN rooms'[rid].hostId = rooms[rid].hostId
             ELSE Remaining(rid, c) # <<>>
                  => rooms'[rid].hostId = Remaining(rid, c)[1].id]_vars

\* a connection closed and left a room to two peers; the one that joined
\* first, not the one with the smallest id, is the host
C18_Witness ==
    /\ last.op = "close"
    /\ \E rid \in DOMAIN rooms :
          /\ Len(rooms[rid].peers) = 2
          /\ rooms[rid].peers[1].id > rooms[rid].peers[2].id
          /\ rooms[rid].hostId = rooms[rid].peers[1].id
          /\ \E i \in DOMAIN out :
                out[i] = Msg(rooms[rid].hostId, "PEER_LEFT", [id |-> last.conn])

(***************************************************************************)
(* C19  Leaving is idempotent: once leaveRoom has run for a connection, a  *)
(* further leaveRoom or close for it, with no join in between, changes no  *)
(* room state and sends no message; each departure produces exactly one    *)
(* PEER_LEFT per remaining client.                                         *)
(***************************************************************************)
\* in the current state, leaveRoom(ws) followed at once by leaveRoom(ws):
\* the second run changes neither table and sends nothing
SecondLeaveIsNoOp(ws) ==
    \A L \in {leaveRoom(conns, rooms, ws)} :
       leaveRoom(L.conns, L.rooms, ws)
          = [conns |-> L.conns, rooms |-> L.rooms, out |-> <<>>, room |-> NullId]

\* the number of PEER_LEFT messages about c that the step sent to k
PeerLeftTo(k, c) ==
    Cardinality({i \in DOMAIN out' : out'[i] = Msg(k, "PEER_LEFT", [id |-> c])})

\* the step made c leave the room registered under its roomId
Departure(c) ==
    /\ last'.conn = c
    /\ last'.op \in {"close", "CREATE_ROOM", "JOIN_ROOM"}
    /\ last'.result = "ok"
    /\ conns[c].roomId \in DOMAIN rooms

OnePeerLeftEach(c) ==
    /\ \A k \in ConnIds :
          PeerLeftTo(k, c) = IF k # c /\ k \in Range(RoomOf(c).clients) THEN 1 ELSE 0
    /\ \A i \in DOMAIN out' : out'[i].type = "PEER_LEFT" => out'[i].payload.id = c

\* a close of a connection that is in no room
CloseOutsideRoom == last'.op = "close" /\ conns[last'.conn].roomId = NullId

C19_LeavingIsIdempotent ==
    /\ [](\A ws \in ConnIds : SecondLeaveIsNoOp(ws))
    /\ [][/\ \A c \in ConnIds : Departure(c) => OnePeerLeftEach(c)
          /\ CloseOutsideRoom => rooms' = rooms /\ out' = <<>>]_vars

\* a connection closed, and the two clients that remain in its room were
\* each sent PEER_LEFT about it
C19_Witness ==
    /\ last.op = "close"
    /\ \E rid \in DOMAIN rooms :
          /\ Len(rooms[rid].clients) = 2
          /\ \A k \in Range(rooms[rid].clients) :
                \E i \in DOMAIN out : out[i] = Msg(k, "PEER_LEFT", [id |-> last.conn])

(***************************************************************************)
(* C20  Role whitelist: after any successful UPDATE_ROLE_POOL,             *)
(* settings.enabledRoles contains only roles of the catalog, contains no   *)
(* role twice, has at least 3 entries, and lists its roles in catalog      *)
(* order whatever the order in which the payload named them; a payload     *)
(* with fewer than 3 distinct catalog roles is rejected with               *)
(* ROLE_POOL_TOO_SMALL and leaves enabledRoles unchanged.                  *)
(***************************************************************************)
\* the position of role r in the catalog
CatalogIndex(catalog, r) == CHOOSE i \in DOMAIN catalog : catalog[i] = r

InCatalogOrder(catalog, roles) ==
    \A i, j \in DOMAIN roles :
       i < j => CatalogIndex(catalog, roles[i]) < CatalogIndex(catalog, roles[j])

NoRoleTwice(roles) == \A i, j \in DOMAIN roles : roles[i] = roles[j] => i = j

\* the distinct catalog roles a payload names
DistinctCatalogRoles(catalog, v) == Range(enabledInput(v)) \cap Range(catalog)

\* what an accepted update leaves in enabledRoles, the order apart
Whitelisted(catalog, roles) ==
    /\ Range(roles) \subseteq Range(catalog)
    /\ NoRoleTwice(roles)
    /\ Len(roles) >= MinEnabledRoles

\* the host's payload names too few catalog roles: rejected, nothing changes
TooSmallRejected(c, v) ==
    (/\ RoomOf(c).hostId = c
     /\ Cardinality(DistinctCatalogRoles(RoomOf(c).settings.roleCatalog, v)) < MinEnabledRoles)
    => /\ last'.result = "ROLE_POOL_TOO_SMALL"
       /\ rooms' = rooms

C20_RoleWhitelist ==
    [][last'.op = "UPDATE_ROLE_POOL" =>
          \A v \in EnabledInputs :
             WlUpdateRolePool(last'.conn, v)
             => /\ TooSmallRejected(last'.conn, v)
                /\ last'.result = "ok"
                   => \A room \in {rooms'[conns[last'.conn].roomId]} :
                         /\ Whitelisted(room.settings.roleCatalog, room.settings.enabledRoles)
                         /\ InCatalogOrder(room.settings.roleCatalog,
                                           room.settings.enabledRoles)]_vars

\* the same without the order
C20_WhitelistedUnordered ==
    [][last'.op = "UPDATE_ROLE_POOL" =>
          \A v \in EnabledInputs :
             WlUpdateRolePool(last'.conn, v)
             => /\ TooSmallRejected(last'.conn, v)
                /\ last'.result = "ok"
                   => \A room \in {rooms'[conns[last'.conn].roomId]} :
                         Whitelisted(room.settings.roleCatalog,
                                     room.settings.enabledRoles)]_vars

\* an update was accepted and enabledRoles is not in catalog order
C20_OutOfOrder ==
    /\ last.op = "UPDATE_ROLE_POOL"
    /\ last.result = "ok"
    /\ \E rid \in DOMAIN rooms :
          ~InCatalogOrder(rooms[rid].settings.roleCatalog,
                          rooms[rid].settings.enabledRoles)

\* an update was rejected as too small
C20_TooSmall == last.op = "UPDATE_ROLE_POOL" /\ last.result = "ROLE_POOL_TOO_SMALL"

(***************************************************************************)
(* C21  In every reachable state a room's phase and day are either         *)
(* (lobby, 0) or (night, 1): the only phase change is lobby to night by a  *)
(* successful START_GAME, which sets day to 1, and no sequence of joins,   *)
(* leaves, host changes or settings updates returns a room to lobby or     *)
(* changes day afterwards.                                                 *)
(***************************************************************************)
PhaseAndDay(room) == <<room.phase, room.day>>

\* the room registered under rid after the step is the object that was
\* registered under rid before it: the step is no CREATE_ROOM that set a
\* new object under that code
SameRoomObject(rid) ==
    /\ rid \in (DOMAIN rooms) \cap (DOMAIN rooms')
    /\ ~(last'.op = "CREATE_ROOM" /\ conns'[last'.conn].roomId = rid)

\* the step is a successful START_GAME of a member of room rid that took
\* the room from the lobby to night 1
StartedBy(rid) ==
    /\ last'.op = "START_GAME"
    /\ last'.result = "ok"
    /\ conns[last'.conn].roomId = rid
    /\ PhaseAndDay(rooms[rid]) = <<"lobby", 0>>
    /\ PhaseAndDay(rooms'[rid]) = <<"night", 1>>

C21_PhaseAndDay ==
    /\ [](\A rid \in DOMAIN rooms :
             PhaseAndDay(rooms[rid]) \in {<<"lobby", 0>>, <<"night", 1>>})
    /\ [][\A rid \in RoomIds :
             (SameRoomObject(rid) /\ PhaseAndDay(rooms'[rid]) # PhaseAndDay(rooms[rid]))
             => StartedBy(rid)]_vars

\* a started room that a member has left since (a start needs MinPlayers
\* peers), just after another event on it
C21_Witness ==
    /\ last.op \in {"close", "JOIN_ROOM", "UPDATE_SETTINGS", "UPDATE_ROLE_COUNTS"}
    /\ last.result = "ok"
    /\ \E rid \in DOMAIN rooms :
          /\ PhaseAndDay(rooms[rid]) = <<"night", 1>>
          /\ Len(rooms[rid].peers) < MinPlayers

(***************************************************************************)
(* C22  Membership consistency: in every reachable state each connection   *)
(* is in the clients set of at most one room, and a connection's roomId is *)
(* set exactly when a room with that id is in the registry and has the     *)
(* connection in its clients set.                                          *)
(***************************************************************************)
\* the registered rooms that have connection c in their clients set
RoomsHolding(c) == {rid \in DOMAIN rooms : c \in Range(rooms[rid].clients)}

InAtMostOneRoom(c) == Cardinality(RoomsHolding(c)) <= 1

\* roomId names a registered room that holds c, or is null and no room holds c
RoomIdMatches(c) ==
    IF conns[c].roomId = NullId
    THEN RoomsHolding(c) = {}
    ELSE RoomsHolding(c) = {conns[c].roomId}

C22_MembershipConsistent ==
    \A c \in ConnIds : InAtMostOneRoom(c) /\ RoomIdMatches(c)

\* a connection joined the room it was alone in: its roomId names a code
\* the registry no longer holds
C22_RejoinedAlone ==
    /\ last.op = "JOIN_ROOM"
    /\ last.result = "ok"
    /\ last.n = 2
    /\ conns[last.conn].roomId # NullId
    /\ conns[last.conn].roomId \notin DOMAIN rooms

\* a connection is in the clients set of two registered rooms
C22_InTwoRooms == \E c \in ConnIds : ~InAtMostOneRoom(c)

(***************************************************************************)
(* C23  In every reachable state, for every room the clients set and the   *)
(* peers map describe the same members: a connection is in room.clients    *)
(* if and only if room.peers has an entry keyed by that connection's id    *)
(* whose ws is that connection, so the two always have the same size.      *)
(***************************************************************************)
HasPeerEntry(room, c) ==
    \E i \in DOMAIN room.peers : room.peers[i].id = c /\ room.peers[i].ws = c

SameMembers(room) ==
    /\ \A c \in ConnIds : c \in Range(room.clients) <=> HasPeerEntry(room, c)
    /\ Len(room.clients) = Len(room.peers)

C23_ClientsMatchPeers == \A rid \in DOMAIN rooms : SameMembers(rooms[rid])

\* a connection closed and left a room that still has two members, each of
\* them told so
C23_Witness ==
    /\ last.op = "close"
    /\ \E rid \in DOMAIN rooms :
          /\ Len(rooms[rid].peers) = 2
          /\ \A i \in DOMAIN rooms[rid].peers :
                \E k \in DOMAIN out :
                   out[k] = Msg(rooms[rid].peers[i].ws, "PEER_LEFT", [id |-> last.conn])

(***************************************************************************)
(* C24  In every reachable state the number of clients (and peers) of a    *)
(* room is at most its settings.maxPlayers, including after the host       *)
(* changes maxPlayers with UPDATE_SETTINGS while members are present.      *)
(***************************************************************************)
WithinCapacity(room) ==
    /\ Len(room.clients) <= room.settings.maxPlayers
    /\ Len(room.peers) <= room.settings.maxPlayers

C24_NeverOverCapacity == \A rid \in DOMAIN rooms : WithinCapacity(rooms[rid])

\* the same in the states that no accepted UPDATE_SETTINGS has just produced
C24_JoinsKeepCapacity ==
    [][(/\ \A rid \in DOMAIN rooms : WithinCapacity(rooms[rid])
        /\ last'.op # "UPDATE_SETTINGS")
       => \A rid \in DOMAIN rooms' : WithinCapacity(rooms'[rid])]_vars

\* the host's UPDATE_SETTINGS left its room with more members than maxPlayers
C24_OverCapacity ==
    /\ last.op = "UPDATE_SETTINGS"
    /\ last.result = "ok"
    /\ \E rid \in DOMAIN rooms : ~WithinCapacity(rooms[rid])

(***************************************************************************)
(* C25  In every reachable state in which a room's phase is not lobby,     *)
(* every peer in that room has a non-null role and alive = true,           *)
(* including peers that joined with JOIN_ROOM after START_GAME succeeded;  *)
(* conversely while phase is lobby every peer's role is null.              *)
(***************************************************************************)
AllDealt(room) ==
    \A i \in DOMAIN room.peers : HasRole(room.peers[i]) /\ IsAlive(room.peers[i])

NoneDealt(room) == \A i \in DOMAIN room.peers : ~HasRole(room.peers[i])

C25_RolesFollowPhase ==
    \A rid \in DOMAIN rooms :
       IF rooms[rid].phase # "lobby" THEN AllDealt(rooms[rid]) ELSE NoneDealt(rooms[rid])

\* the converse alone: in the lobby no peer has a role
C25_LobbyHasNoRoles ==
    \A rid \in DOMAIN rooms : rooms[rid].phase = "lobby" => NoneDealt(rooms[rid])

\* a JOIN_ROOM into a started room left the joiner there without a role
C25_JoinedAfterStart ==
    /\ last.op = "JOIN_ROOM"
    /\ last.result = "ok"
    /\ \E rid \in DOMAIN rooms :
          /\ rooms[rid].phase = "night"
          /\ conns[last.conn].roomId = rid
          /\ \E i \in DOMAIN rooms[rid].peers :
                /\ rooms[rid].peers[i].id = last.conn
                /\ ~HasRole(rooms[rid].peers[i])
                /\ ~IsAlive(rooms[rid].peers[i])

====
